---- MODULE Spec2Model ----
(***************************************************************************)
(* Model of the U2F raw AUTHENTICATE handler (src/u2f-raw/authenticate.c). *)
(* A request is a complete MSG message on some channel; the handler        *)
(* dispatches on the APDU's P1 and returns a response message or NULL.     *)
(* Bytes are naturals in 0..255, buffers are sequences of bytes.           *)
(***************************************************************************)
EXTENDS Integers, Sequences, FiniteSets, TLC

VARIABLES
    in_request,       \* the request message last handed to the handler
    out_response,     \* what raw_authenticate_handler returned (NULL or message)
    status,           \* "idle" | "returned" | "crashed"
    heap,             \* allocations still live when the handler returned
    allocated,        \* every allocation made during the call
    buffer_signed,    \* buffer_to_sign handed to crypto_hash, <<>> if none
    signature,        \* signature_buffer added to the response, <<>> if none
    kh_size,          \* size_t key_handle_size reported by the decryption
    pk_size,          \* size_t privkey_size computed from it
    counters,         \* counter of every enforce response so far, in order
    nb_requests       \* requests handled so far

vars == <<in_request, out_response, status, heap, allocated, buffer_signed,
          signature, kh_size, pk_size, counters, nb_requests>>

(***************************************************************************)
(* Bounds of the model.                                                    *)
(***************************************************************************)
MaxRequests == 3
NbChannels == 2

(***************************************************************************)
(* Program constants.                                                      *)
(***************************************************************************)
U2F_APDU_HEADER_SIZE == 7
U2F_APP_PARAM_SIZE == 32
U2F_CHA_PARAM_SIZE == 32
U2F_AUTH_CHECK == 7
U2F_AUTH_ENFORCE == 3
U2F_AUTH_NO_ENFORCE == 8
CMD_MSG == 131
SW_NO_ERROR == 36864
SW_CONDITIONS_NOT_SATISFIED == 27013
SW_WRONG_DATA == 27264

\* size_t arithmetic wraps.  Every size of the model is below 2^9, so a
\* subtraction wraps at this width exactly when it wraps at the machine's.
SizeTMod == 2^20

Fill(n, b) == [i \in 1..n |-> b]

(***************************************************************************)
(* struct message: the init packet's cid and cmd, and the payload bytes    *)
(* (BCNT is the payload's length).                                         *)
(***************************************************************************)
NULL == [null |-> TRUE, cid |-> 0, cmd |-> 0, data |-> <<>>]

message_new_blank(cid, cmd) ==
    [null |-> FALSE, cid |-> cid, cmd |-> cmd, data |-> <<>>]

message_add_data(message, data) ==
    [message EXCEPT !.data = @ \o data]

packet_init_get_bcnt(message) == Len(message.data)

Min(a, b) == IF a < b THEN a ELSE b

\* size bytes from offset (0-based), cut at the end of the payload
message_read(message, offset, size) ==
    SubSeq(message.data, offset + 1, Min(offset + size, Len(message.data)))

(***************************************************************************)
(* Crypto adapters, as pure functions.                                     *)
(***************************************************************************)
crypto_aes_encrypt(plain) ==
    [i \in 1..Len(plain) |-> (plain[i] + 7 * i + 13) % 256]

crypto_aes_decrypt(cipher) ==
    [i \in 1..Len(cipher) |-> (cipher[i] + 256 * 8 - 7 * i - 13) % 256]

\* sum of (1 + weight * i) * s[i] over the indices i of s
SumBytes(s, weight) ==
    LET sum[i \in 0..Len(s)] ==
            IF i = 0 THEN 0 ELSE sum[i - 1] + (1 + weight * i) * s[i]
    IN  sum[Len(s)]

crypto_hash(buffer) ==
    <<SumBytes(buffer, 0) % 256, SumBytes(buffer, 1) % 256>>

crypto_ec_bytes_to_key(bytes, size) ==
    SubSeq(bytes, 1, Min(size, Len(bytes)))

crypto_ec_sign_with_key(key, digest) ==
    <<48, 2, (digest[1] + SumBytes(key, 0)) % 256,
             (digest[2] + SumBytes(key, 1)) % 256>>

(***************************************************************************)
(* The handler's working state: the response under construction, the live  *)
(* allocations, and what was hashed and signed.                            *)
(***************************************************************************)
xmalloc(ctx, name) ==
    [ctx EXCEPT !.heap = @ \cup {name}, !.allocated = @ \cup {name}]

free(ctx, name) == [ctx EXCEPT !.heap = @ \ {name}]

NewContext(response) ==
    [response |-> response, heap |-> {"response"}, allocated |-> {"response"},
     buffer_signed |-> <<>>, signature |-> <<>>]

authenticate_response_user_pre(ctx, presence) ==
    [ctx EXCEPT !.response = message_add_data(@, <<presence>>)]

authenticate_response_counter(ctx, counter) ==
    LET counter_buffer == <<counter % 256,
                            (counter \div 256) % 256,
                            (counter \div 65536) % 256,
                            (counter \div 16777216) % 256>>
    IN  [ctx EXCEPT !.response = message_add_data(@, counter_buffer)]

authenticate_response_signature(ctx, key, params, presence, counter) ==
    LET c1 == xmalloc(ctx, "buffer_to_sign")
        counter_buffer == <<counter % 256,
                            (counter \div 256) % 256,
                            (counter \div 65536) % 256,
                            (counter \div 16777216) % 256>>
        buffer_to_sign == params.application_param
                          \o <<presence>>
                          \o counter_buffer
                          \o params.challenge_param
        c2 == xmalloc(c1, "digest")
        digest == crypto_hash(buffer_to_sign)
        c3 == xmalloc(c2, "signature_buffer")
        signature_buffer == crypto_ec_sign_with_key(key, digest)
        c4 == [c3 EXCEPT !.response = message_add_data(@, signature_buffer),
                         !.buffer_signed = buffer_to_sign,
                         !.signature = signature_buffer]
    IN  free(free(free(c4, "buffer_to_sign"), "digest"), "signature_buffer")

authenticate_response_sw(ctx, sw_status) ==
    LET sw == <<(sw_status \div 256) % 256, sw_status % 256>>
    IN  [ctx EXCEPT !.response = message_add_data(@, sw)]

\* struct authentification_params read at the end of the APDU header
AuthParamsSize == U2F_CHA_PARAM_SIZE + U2F_APP_PARAM_SIZE + 1

authentification_params(request) ==
    LET raw == message_read(request, U2F_APDU_HEADER_SIZE, AuthParamsSize)
    IN  [challenge_param |-> SubSeq(raw, 1, U2F_CHA_PARAM_SIZE),
         application_param |-> SubSeq(raw, U2F_CHA_PARAM_SIZE + 1,
                                      U2F_CHA_PARAM_SIZE + U2F_APP_PARAM_SIZE),
         key_handle_size |-> raw[AuthParamsSize]]

authenticate_get_key_handle_cipher(request, params) ==
    LET offset == U2F_APDU_HEADER_SIZE + U2F_APP_PARAM_SIZE
                  + U2F_CHA_PARAM_SIZE + 1
    IN  message_read(request, offset, params.key_handle_size)

authenticate_decrypt_key_handle_cipher(key_handle_cipher, size) ==
    crypto_aes_decrypt(SubSeq(key_handle_cipher, 1, size))

\* size_t privkey_size = key_handle_size - U2F_APP_PARAM_SIZE
PrivkeySize(size) == (size - U2F_APP_PARAM_SIZE + SizeTMod) % SizeTMod

\* the privkey_size bytes at key_handle lie inside the decrypted key handle
InBounds(size) == PrivkeySize(size) + U2F_APP_PARAM_SIZE <= size

\* reading out of the key handle's bounds is undefined: the build yields a
\* key made of whatever is in memory (ub.key)
authenticate_get_pubkey_from_key_handle(key_handle, size, ub) ==
    LET privkey_size == PrivkeySize(size)
    IN  IF InBounds(size)
        THEN crypto_ec_bytes_to_key(key_handle, privkey_size)
        ELSE ub.key

(***************************************************************************)
(* The handlers.  Each returns its outcome: the working state at return,   *)
(* the sizes it computed, and whether the undefined read ended the process.*)
(***************************************************************************)
raw_authenticate_check_response_swapped(request) ==
    message_new_blank(CMD_MSG, request.cid)

raw_authenticate_check_response(request) ==
    message_new_blank(request.cid, CMD_MSG)

raw_authenticate_check_free(ctx) ==
    free(free(free(free(ctx, "key_handle_cipher"), "key_handle"),
              "request_buffer"), "response_buffer")

raw_authenticate_check(request, ub) ==
    LET params == authentification_params(request)
        c0 == NewContext(raw_authenticate_check_response(request))
        c1 == xmalloc(c0, "key_handle_cipher")
        key_handle_cipher == authenticate_get_key_handle_cipher(request, params)
        key_handle_cipher_size == params.key_handle_size % 256
        c2 == xmalloc(c1, "key_handle")
        key_handle == authenticate_decrypt_key_handle_cipher(
                          key_handle_cipher, key_handle_cipher_size)
        key_handle_size == Len(key_handle)
        privkey_size == PrivkeySize(key_handle_size)
        \* memcmp(key_handle + privkey_size, application_param, 32) != 0;
        \* out of the key handle's bounds its result is whatever memory holds
        mismatch == IF InBounds(key_handle_size)
                    THEN SubSeq(key_handle, privkey_size + 1,
                                privkey_size + U2F_APP_PARAM_SIZE)
                         # params.application_param
                    ELSE ub.mismatch
        c3 == IF mismatch
              THEN authenticate_response_sw(c2, SW_WRONG_DATA)
              ELSE authenticate_response_sw(c2, SW_CONDITIONS_NOT_SATISFIED)
        c4 == xmalloc(c3, "request_buffer")
        c5 == xmalloc(c4, "response_buffer")
    IN  [ctx |-> raw_authenticate_check_free(c5),
         crashed |-> ~InBounds(key_handle_size) /\ ub.crash,
         key_handle_size |-> key_handle_size,
         privkey_size |-> privkey_size,
         counters |-> <<>>]

raw_authenticate_enforce_response(request) ==
    message_new_blank(request.cid, CMD_MSG)

raw_authenticate_enforce_free_no_key(ctx) ==
    free(free(free(free(ctx, "key_handle_cipher"), "key_handle"),
              "request_buffer"), "response_buffer")

raw_authenticate_enforce_free(ctx) ==
    free(free(free(free(free(ctx, "key_handle_cipher"), "key_handle"), "key"),
              "request_buffer"), "response_buffer")

raw_authenticate_enforce(request, ub) ==
    LET params == authentification_params(request)
        c0 == NewContext(raw_authenticate_enforce_response(request))
        c1 == xmalloc(c0, "key_handle_cipher")
        key_handle_cipher == authenticate_get_key_handle_cipher(request, params)
        c2 == xmalloc(c1, "key_handle")
        key_handle == authenticate_decrypt_key_handle_cipher(
                          key_handle_cipher, params.key_handle_size)
        key_handle_size == Len(key_handle)
        c3 == xmalloc(c2, "key")
        key == authenticate_get_pubkey_from_key_handle(
                   key_handle, key_handle_size, ub)
        c4 == authenticate_response_user_pre(c3, 1)
        c5 == authenticate_response_counter(c4, 1)
        c6 == authenticate_response_signature(c5, key, params, 1, 1)
        c7 == authenticate_response_sw(c6, SW_NO_ERROR)
        c8 == xmalloc(c7, "request_buffer")
        c9 == xmalloc(c8, "response_buffer")
    IN  [ctx |-> raw_authenticate_enforce_free(c9),
         crashed |-> ~InBounds(key_handle_size) /\ ub.crash,
         key_handle_size |-> key_handle_size,
         privkey_size |-> PrivkeySize(key_handle_size),
         counters |-> <<1>>]

NoContext ==
    [response |-> NULL, heap |-> {}, allocated |-> {},
     buffer_signed |-> <<>>, signature |-> <<>>]

raw_authenticate_no_enforce(request, ub) ==
    [ctx |-> NoContext, crashed |-> FALSE,
     key_handle_size |-> 0, privkey_size |-> 0, counters |-> <<>>]

\* struct frame_header overlaid on the init packet's data
frame_header(request) ==
    [cla |-> request.data[1], ins |-> request.data[2],
     p1 |-> request.data[3], p2 |-> request.data[4]]

raw_authenticate_handler(request, ub) ==
    LET header == frame_header(request)
    IN  CASE header.p1 = U2F_AUTH_CHECK -> raw_authenticate_check(request, ub)
          [] header.p1 = U2F_AUTH_ENFORCE -> raw_authenticate_enforce(request, ub)
          [] header.p1 = U2F_AUTH_NO_ENFORCE ->
                 raw_authenticate_no_enforce(request, ub)
          [] OTHER -> [ctx |-> NoContext, crashed |-> FALSE,
                       key_handle_size |-> 0, privkey_size |-> 0,
                       counters |-> <<>>]

(***************************************************************************)
(* The client: the requests it may send.  A key handle is the wrapping of  *)
(* private_key_bytes || application_param made at registration, or any     *)
(* other bytes the client chooses to send in its place.                    *)
(***************************************************************************)
AppParams == {Fill(U2F_APP_PARAM_SIZE, 170), Fill(U2F_APP_PARAM_SIZE, 187)}

ChallengeParams == {Fill(U2F_CHA_PARAM_SIZE, 17), Fill(U2F_CHA_PARAM_SIZE, 34)}

PrivateKey == [i \in 1..32 |-> i]

RegisteredKeyHandle(application_param) ==
    crypto_aes_encrypt(PrivateKey \o application_param)

KeyHandles ==
    {RegisteredKeyHandle(a) : a \in AppParams} \cup {<<>>, Fill(16, 66)}

\* values of P1 that name no AUTHENTICATE mode
OtherP1Values == {0}

Cids == 1..NbChannels

\* CLA INS P1 P2 LC:3 || challenge || application || |key_handle| || key_handle
BuildRequest(cid, p1, challenge_param, application_param, key_handle) ==
    [null |-> FALSE, cid |-> cid, cmd |-> CMD_MSG,
     data |-> <<0, 2, p1, 0, 0, 0, AuthParamsSize + Len(key_handle)>>
              \o challenge_param \o application_param
              \o <<Len(key_handle)>> \o key_handle]

RequestsWith(p1) ==
    {BuildRequest(cid, p1, cha, app, kh) :
        cid \in Cids, cha \in ChallengeParams,
        app \in AppParams, kh \in KeyHandles}

\* what an out-of-bounds read may produce
GarbageKeys == {<<>>, Fill(32, 0)}

Defined == [crash |-> FALSE, mismatch |-> TRUE, key |-> <<>>]

\* the outcomes of the handler's reads: one when every read is within the
\* decrypted key handle, else any the build can produce
Undefined(request) ==
    LET params == authentification_params(request)
        key_handle == authenticate_decrypt_key_handle_cipher(
                          authenticate_get_key_handle_cipher(request, params),
                          params.key_handle_size)
    IN  IF InBounds(Len(key_handle))
        THEN {Defined}
        ELSE {[crash |-> TRUE, mismatch |-> TRUE, key |-> <<>>]}
             \cup [crash : {FALSE}, mismatch : BOOLEAN, key : GarbageKeys]

(***************************************************************************)
(* The state machine: the device task hands one complete request at a time *)
(* to raw_authenticate_handler and takes what it returns.                  *)
(***************************************************************************)
Init ==
    /\ in_request = NULL
    /\ out_response = NULL
    /\ status = "idle"
    /\ heap = {}
    /\ allocated = {}
    /\ buffer_signed = <<>>
    /\ signature = <<>>
    /\ kh_size = 0
    /\ pk_size = 0
    /\ counters = <<>>
    /\ nb_requests = 0

Handle(request, ub) ==
    \E out \in {raw_authenticate_handler(request, ub)} :
        /\ nb_requests < MaxRequests
        /\ status # "crashed"
        /\ in_request' = request
        /\ nb_requests' = nb_requests + 1
        /\ kh_size' = out.key_handle_size
        /\ pk_size' = out.privkey_size
        /\ IF out.crashed
           THEN /\ status' = "crashed"
                /\ out_response' = NULL
                /\ heap' = {}
                /\ allocated' = {}
                /\ buffer_signed' = <<>>
                /\ signature' = <<>>
                /\ counters' = counters
           ELSE /\ status' = "returned"
                /\ out_response' = out.ctx.response
                /\ heap' = out.ctx.heap
                /\ allocated' = out.ctx.allocated
                /\ buffer_signed' = out.ctx.buffer_signed
                /\ signature' = out.ctx.signature
                /\ counters' = counters \o out.counters

AuthenticateCheck ==
    \E request \in RequestsWith(U2F_AUTH_CHECK) :
        \E ub \in Undefined(request) : Handle(request, ub)

AuthenticateEnforce ==
    \E request \in RequestsWith(U2F_AUTH_ENFORCE) :
        \E ub \in Undefined(request) : Handle(request, ub)

AuthenticateNoEnforce ==
    \E request \in RequestsWith(U2F_AUTH_NO_ENFORCE) :
        Handle(request, Defined)

AuthenticateUnknown ==
    \E p1 \in OtherP1Values :
        \E request \in RequestsWith(p1) : Handle(request, Defined)

Next ==
    \/ AuthenticateCheck
    \/ AuthenticateEnforce
    \/ AuthenticateNoEnforce
    \/ AuthenticateUnknown

Spec == Init /\ [][Next]_vars

(***************************************************************************)
(* Vocabulary of the properties: what the last request asked, and what the *)
(* U2F payload format prescribes.                                          *)
(***************************************************************************)
Handled == status # "idle"

Returned == status = "returned"

LastP1 == frame_header(in_request).p1

LastParams == authentification_params(in_request)

\* the key handle of the last request, unwrapped
LastKeyHandle ==
    crypto_aes_decrypt(
        authenticate_get_key_handle_cipher(in_request, LastParams))

\* it is long enough to hold a bound application parameter
HoldsAppParam == Len(LastKeyHandle) >= U2F_APP_PARAM_SIZE

BoundAppParam ==
    SubSeq(LastKeyHandle, Len(LastKeyHandle) - U2F_APP_PARAM_SIZE + 1,
           Len(LastKeyHandle))

AppParamMatches ==
    HoldsAppParam /\ BoundAppParam = LastParams.application_param

StatusWord(sw) == <<sw \div 256, sw % 256>>

BigEndian32(n) ==
    <<(n \div 16777216) % 256, (n \div 65536) % 256, (n \div 256) % 256, n % 256>>

LastTwo(data) == SubSeq(data, Len(data) - 1, Len(data))

LastCounter == counters[Len(counters)]

\* C1: an enforce request whose key handle is bound to another application
\* parameter is answered SW_WRONG_DATA with no signature; only a matching
\* one is answered SW_NO_ERROR.
C1_EnforceChecksAppParam ==
    (Returned /\ LastP1 = U2F_AUTH_ENFORCE /\ HoldsAppParam) =>
        /\ ~out_response.null
        /\ IF AppParamMatches
           THEN LastTwo(out_response.data) = StatusWord(SW_NO_ERROR)
           ELSE /\ out_response.data = StatusWord(SW_WRONG_DATA)
                /\ signature = <<>>

\* C2: a check-only request is answered by exactly two bytes:
\* SW_CONDITIONS_NOT_SATISFIED when the application parameter bound in the
\* key handle is the request's, SW_WRONG_DATA otherwise.
C2_CheckStatusWord ==
    (Returned /\ LastP1 = U2F_AUTH_CHECK) =>
        /\ ~out_response.null
        /\ out_response.data =
               IF AppParamMatches
               THEN StatusWord(SW_CONDITIONS_NOT_SATISFIED)
               ELSE StatusWord(SW_WRONG_DATA)

\* C3: the counter of each successful enforce response is strictly greater
\* than the counter of the previous one.
C3_CounterMonotonic ==
    \A i \in 1..(Len(counters) - 1) : counters[i + 1] > counters[i]

\* C4: the payload of a successful enforce response is user_presence 0x01,
\* the counter as 4 big-endian bytes, the signature, then 0x90 0x00.
C4_EnforcePayload ==
    (Returned /\ LastP1 = U2F_AUTH_ENFORCE /\ ~out_response.null
        /\ LastTwo(out_response.data) = StatusWord(SW_NO_ERROR)) =>
        out_response.data =
            <<1>> \o BigEndian32(LastCounter) \o signature \o <<144, 0>>

\* C5: the buffer hashed and signed for an enforce request is the 69 bytes
\* application_param, user_presence, big-endian counter, challenge_param.
C5_SignedBuffer ==
    (Returned /\ LastP1 = U2F_AUTH_ENFORCE /\ buffer_signed # <<>>) =>
        /\ Len(buffer_signed) = 69
        /\ buffer_signed =
               LastParams.application_param \o <<1>>
               \o BigEndian32(LastCounter) \o LastParams.challenge_param

\* C6: a don't-enforce request (P1 = 0x08) gets the response the same
\* request gets as an enforce request.
C6_NoEnforceAsEnforce ==
    (Returned /\ LastP1 = U2F_AUTH_NO_ENFORCE) =>
        \E ub \in Undefined(in_request) :
            /\ ~ub.crash
            /\ out_response = raw_authenticate_enforce(in_request, ub).ctx.response

\* C7: whatever P1 is, the handler returns a MSG response, and a rejected
\* request's response is exactly the two-byte status word.
C7_AlwaysResponds ==
    Returned =>
        /\ ~out_response.null
        /\ out_response.cmd = CMD_MSG
        /\ Len(out_response.data) >= 2
        /\ (LastTwo(out_response.data) # StatusWord(SW_NO_ERROR)
                => Len(out_response.data) = 2)

\* C8: when the check or the enforce handler returns, everything it
\* acquired is released but the response message it returns.
C8_AllReleased ==
    (Returned /\ LastP1 \in {U2F_AUTH_CHECK, U2F_AUTH_ENFORCE}) =>
        /\ ~out_response.null
        /\ heap = {"response"}

C8_Witness ==
    /\ Returned
    /\ LastP1 = U2F_AUTH_ENFORCE
    /\ {"key_handle_cipher", "key_handle", "key", "buffer_to_sign", "digest",
        "signature_buffer", "request_buffer", "response_buffer"}
           \subseteq allocated
    /\ heap = {"response"}

\* C9: for a check or enforce request the private key length,
\* key handle size - 32, does not underflow: a key handle that decrypts to
\* fewer than 32 bytes is not used.
C9_NoUnderflow ==
    (Handled /\ LastP1 \in {U2F_AUTH_CHECK, U2F_AUTH_ENFORCE}) =>
        /\ kh_size >= U2F_APP_PARAM_SIZE
        /\ pk_size = kh_size - U2F_APP_PARAM_SIZE

\* C10: a response of the check or the enforce handler is a MSG message on
\* the channel the request arrived on.
C10_SameChannel ==
    (Returned /\ LastP1 \in {U2F_AUTH_CHECK, U2F_AUTH_ENFORCE}) =>
        /\ ~out_response.null
        /\ out_response.cid = in_request.cid
        /\ out_response.cmd = CMD_MSG

C10_Witness ==
    /\ Returned
    /\ LastP1 = U2F_AUTH_CHECK
    /\ in_request.cid = NbChannels
    /\ out_response.cid = NbChannels
    /\ Len(out_response.data) = 2

====
